---- MODULE Spec2Model ----
(***************************************************************************)
(* A model of grader.py: the TestCaseGrader class (run_test_case,          *)
(* run_multiple_tests, print_summary, get_score, load_tests_from_directory,*)
(* run_tests_from_directory) and the __main__ script.                      *)
(*                                                                         *)
(* Text that the code inspects (stdin/stdout/expected output, which are    *)
(* stripped and compared) is a sequence of one-character strings.  Text    *)
(* that the code only carries around (names, stderr, messages) is a TLA+   *)
(* string.  A Python value that may be None is a sequence of length 0      *)
(* (None) or 1 (the value).                                                *)
(***************************************************************************)
EXTENDS Integers, Sequences, FiniteSets, TLC

VARIABLES
    code_exists,  \* the file self.code_file names exists and is readable
    timeout,      \* self.timeout
    results,      \* self.results
    test_cases,   \* argument of the run_multiple_tests call in progress or last returned
    idx,          \* position of the for loop of run_multiple_tests
    pc,           \* where the caller stands
    caller,       \* "client" (a program using the class) or "main" (the script)
    op,           \* the operation the last step executed
    call,         \* arguments and environment of the last run_test_case call
    ret,          \* value returned by the last operation
    raised,       \* exception that left the last operation ("" if none)
    printed,      \* lines the last operation printed
    child,        \* state of the subprocess of the last run_test_case call
    spawned,      \* subprocess.run calls made by the last run_test_case call
    dir_exists,   \* the directory 'tests' exists
    dir,          \* the files of 'tests', by sorted stem
    prior,        \* outcomes held when run_multiple_tests was last called
    exit_status   \* exit status of the script: <<>> while running

vars == <<code_exists, timeout, results, test_cases, idx, pc, caller, op, call,
          ret, raised, printed, child, spawned, dir_exists, dir, prior, exit_status>>

----------------------------------------------------------------------------
(* Bounds of the model *)

\* direct run_test_case calls are made while fewer results are recorded
MaxResults == 2
\* longest list handed to run_multiple_tests
MaxBatch == 2
\* most input files in the test directory
MaxFiles == 2
\* longest text of the comparison specification
MaxLen == 4

----------------------------------------------------------------------------
(* Python values *)

None == <<>>
Some(v) == <<v>>

\* str.strip(): the characters Python removes (those of the model's alphabet)
Whitespace == {" ", "\n", "\t"}

RECURSIVE lstrip(_)
lstrip(s) ==
    IF s = <<>> THEN <<>>
    ELSE IF Head(s) \in Whitespace THEN lstrip(Tail(s)) ELSE s

RECURSIVE rstrip(_)
rstrip(s) ==
    IF s = <<>> THEN <<>>
    ELSE IF s[Len(s)] \in Whitespace THEN rstrip(SubSeq(s, 1, Len(s) - 1)) ELSE s

\* a strip() that forgets the trailing whitespace
strip_LeftOnly(s) == lstrip(s)

strip(s) == rstrip(lstrip(s))

\* dict.get(key, default)
Get(d, key, default) == IF key \in DOMAIN d THEN d[key] ELSE default

\* truth value of an Optional[str] holding a TLA+ string
Truthy(o) == o # None /\ o[1] # ""

\* f'Test {k}'
DefaultName(k) == "Test " \o ToString(k)

\* f'Timeout: Execution exceeded {self.timeout} seconds'
TimeoutMessage(t) == "Timeout: Execution exceeded " \o ToString(t) \o " seconds"

----------------------------------------------------------------------------
(* The environment of one run_test_case call: what launching                *)
(* [sys.executable, self.code_file] does.  error # "" : the launch itself   *)
(* fails with that message; otherwise the interpreter runs for `seconds`,   *)
(* writes stdout and stderr and exits with returncode.                      *)

\* the interpreter itself cannot be started (OSError raised by Popen)
LaunchErrors == {"[Errno 12] Cannot allocate memory"}

\* what the target program may do when its file exists
TargetRuns ==
    { [error |-> "", stdout |-> <<"3", "\n">>, stderr |-> "",     returncode |-> 0, seconds |-> 1],
      [error |-> "", stdout |-> <<"3", "\n">>, stderr |-> "warn", returncode |-> 1, seconds |-> 1],
      [error |-> "", stdout |-> <<"4">>,       stderr |-> "",     returncode |-> 0, seconds |-> 3],
      [error |-> "", stdout |-> <<"3", "\n">>, stderr |-> "",     returncode |-> 0, seconds |-> 9] }

\* the interpreter given a file it cannot open: nothing on stdout, a message
\* on stderr, exit status 2, at once
MissingRun ==
    [error |-> "", stdout |-> <<>>, stderr |-> "can't open file", returncode |-> 2, seconds |-> 0]

Envs(exists) ==
    { [error |-> m, stdout |-> <<>>, stderr |-> "", returncode |-> 0, seconds |-> 0] : m \in LaunchErrors }
    \cup (IF exists THEN TargetRuns ELSE {MissingRun})

\* timeout of the script's grader (and the constructor's default)
DefaultTimeout == 5
Timeouts == {2, DefaultTimeout}

\* a run that raises TimeoutExpired without reclaiming the child
SubprocessRun_NoKill(env, t) ==
    IF env.error # ""
    THEN [outcome |-> "Exception", message |-> env.error, stdout |-> <<>>, stderr |-> "",
          returncode |-> 0, child |-> "none", calls |-> 1]
    ELSE IF env.seconds > t
    THEN [outcome |-> "TimeoutExpired", message |-> "", stdout |-> <<>>, stderr |-> "",
          returncode |-> 0, child |-> "running", calls |-> 1]
    ELSE [outcome |-> "completed", message |-> "", stdout |-> env.stdout, stderr |-> env.stderr,
          returncode |-> env.returncode, child |-> "exited", calls |-> 1]

\* subprocess.run(..., input=..., capture_output=True, text=True, timeout=t):
\* a failed launch raises; a child still running after t seconds is killed
\* and waited for, then TimeoutExpired is raised; otherwise the completed
\* process is returned.
SubprocessRun(env, t) ==
    IF env.error # ""
    THEN [outcome |-> "Exception", message |-> env.error, stdout |-> <<>>, stderr |-> "",
          returncode |-> 0, child |-> "none", calls |-> 1]
    ELSE IF env.seconds > t
    THEN [outcome |-> "TimeoutExpired", message |-> "", stdout |-> <<>>, stderr |-> "",
          returncode |-> 0, child |-> "killed", calls |-> 1]
    ELSE [outcome |-> "completed", message |-> "", stdout |-> env.stdout, stderr |-> env.stderr,
          returncode |-> env.returncode, child |-> "exited", calls |-> 1]

----------------------------------------------------------------------------
(* TestCaseGrader.run_test_case *)

\* a default name counted from zero
NameOf_ZeroBased(res, test_name) ==
    IF Truthy(test_name) THEN test_name[1] ELSE DefaultName(Len(res))

\* test_name or f'Test {len(self.results) + 1}'
NameOf(res, test_name) ==
    IF Truthy(test_name) THEN test_name[1] ELSE DefaultName(Len(res) + 1)

\* the dictionary built on each of the three paths
TestResult(res, input_data, expected_output, test_name, sp, t) ==
    IF sp.outcome = "completed"
    THEN [test_name       |-> NameOf(res, test_name),
          passed          |-> (strip(sp.stdout) = strip(expected_output)),
          input           |-> input_data,
          expected_output |-> strip(expected_output),
          actual_output   |-> Some(strip(sp.stdout)),
          stderr          |-> IF sp.stderr # "" THEN Some(sp.stderr) ELSE None,
          return_code     |-> Some(sp.returncode)]
    ELSE IF sp.outcome = "TimeoutExpired"
    THEN [test_name       |-> NameOf(res, test_name),
          passed          |-> FALSE,
          input           |-> input_data,
          expected_output |-> expected_output,
          actual_output   |-> None,
          error           |-> TimeoutMessage(t),
          return_code     |-> None]
    ELSE [test_name       |-> NameOf(res, test_name),
          passed          |-> FALSE,
          input           |-> input_data,
          expected_output |-> expected_output,
          actual_output   |-> None,
          error           |-> sp.message,
          return_code     |-> None]

\* a result that overwrites the latest one instead of following it
Record_Overwrite(res, test_result) ==
    IF res = <<>> THEN <<test_result>>
    ELSE Append(SubSeq(res, 1, Len(res) - 1), test_result)

\* self.results.append(test_result)
Record(res, test_result) == Append(res, test_result)

\* the effect of one call on the grader and on what the caller observes
RunTestCase(input_data, expected_output, test_name, env) ==
    LET sp == SubprocessRun(env, timeout)
        test_result == TestResult(results, input_data, expected_output, test_name, sp, timeout)
    IN  /\ results' = Record(results, test_result)
        /\ ret' = test_result
        /\ raised' = ""
        /\ printed' = <<>>
        /\ child' = sp.child
        /\ spawned' = sp.calls
        /\ call' = [input_data |-> input_data, expected_output |-> expected_output,
                    test_name |-> test_name, env |-> env, before |-> Len(results)]
        /\ op' = "run_test_case"

\* the arguments a caller passes: no name, an empty name, a name; an
\* expected output that strip() changes and one it leaves alone
CallArgs ==
    { [input_data |-> <<"1", " ", "2", "\n">>, expected_output |-> <<" ", "3", "\n">>,
       test_name |-> None],
      [input_data |-> <<"2", " ", "2">>, expected_output |-> <<"5">>,
       test_name |-> Some("")],
      [input_data |-> <<"2", " ", "2">>, expected_output |-> <<" ", "3", "\n">>,
       test_name |-> Some("Test 2")] }

----------------------------------------------------------------------------
(* TestCaseGrader.get_score and TestCaseGrader.print_summary *)

RECURSIVE CountPassed(_)
\* sum(1 for r in self.results if r['passed'])
CountPassed(res) ==
    IF res = <<>> THEN 0
    ELSE (IF Head(res).passed THEN 1 ELSE 0) + CountPassed(Tail(res))

\* a score that counts every outcome as passed
GetScore_CountAll(res) ==
    IF res = <<>> THEN <<0, 0>> ELSE <<Len(res), Len(res)>>

GetScore(res) ==
    IF res = <<>> THEN <<0, 0>> ELSE <<CountPassed(res), Len(res)>>

\* f'{100*passed/total:.1f}': the quotient in tenths, rounded to nearest;
\* Python raises ZeroDivisionError when total is 0
Percent(passed, total) ==
    IF total = 0
    THEN [raised |-> "ZeroDivisionError", tenths |-> 0]
    ELSE [raised |-> "", tenths |-> (2000 * passed + total) \div (2 * total)]

\* the lines print_summary prints for one result
ResultLines(r) ==
    << [line |-> "status", mark |-> IF r.passed THEN "PASS" ELSE "FAIL", name |-> r.test_name] >>
    \o (IF r.passed THEN <<>>
        ELSE << [line |-> "Input", text |-> r.input],
                [line |-> "Expected", text |-> r.expected_output],
                [line |-> "Got", value |-> r.actual_output] >>
             \o (IF Get(r, "error", "") # ""
                 THEN << [line |-> "Error", message |-> r.error] >> ELSE <<>>)
             \o (IF Get(r, "stderr", None) # None
                 THEN << [line |-> "Stderr", message |-> r.stderr[1]] >> ELSE <<>>))

RECURSIVE AllResultLines(_)
AllResultLines(res) ==
    IF res = <<>> THEN <<>> ELSE ResultLines(Head(res)) \o AllResultLines(Tail(res))

\* a print_summary without its early return on an empty list
PrintSummary_Unguarded(res) ==
    LET total == Len(res)
        passed == CountPassed(res)
        pct == Percent(passed, total)
        body == << [line |-> "TEST SUMMARY", passed |-> passed, total |-> total] >>
                \o AllResultLines(res)
    IN  IF pct.raised # ""
        THEN [lines |-> body, raised |-> pct.raised]
        ELSE [lines |-> body \o << [line |-> "Score", passed |-> passed,
                                    total |-> total, tenths |-> pct.tenths] >>,
              raised |-> ""]

\* what print_summary prints, and the exception that ends it, if any
PrintSummary(res) ==
    IF res = <<>>
    THEN [lines |-> << [line |-> "No tests have been run yet."] >>, raised |-> ""]
    ELSE LET total == Len(res)
             passed == CountPassed(res)
             pct == Percent(passed, total)
             body == << [line |-> "TEST SUMMARY", passed |-> passed, total |-> total] >>
                     \o AllResultLines(res)
         IN  IF pct.raised # ""
             THEN [lines |-> body, raised |-> pct.raised]
             ELSE [lines |-> body \o << [line |-> "Score", passed |-> passed,
                                         total |-> total, tenths |-> pct.tenths] >>,
                   raised |-> ""]

----------------------------------------------------------------------------
(* TestCaseGrader.load_tests_from_directory with the default patterns       *)
(* "*.in" and "*.out".  A file of the directory is an input file with its   *)
(* stem, whether <stem>.out exists, whether both can be read, and the       *)
(* contents of the pair.                                                    *)

Stem(i) == "test" \o ToString(i)

Files(i) ==
    { [stem |-> Stem(i), has_output |-> FALSE, readable |-> TRUE,
       input |-> <<"1", " ", "2", "\n">>, expected_output |-> <<" ", "3", "\n">>],
      [stem |-> Stem(i), has_output |-> TRUE, readable |-> FALSE,
       input |-> <<"1", " ", "2", "\n">>, expected_output |-> <<" ", "3", "\n">>],
      [stem |-> Stem(i), has_output |-> TRUE, readable |-> TRUE,
       input |-> <<"1", " ", "2", "\n">>, expected_output |-> <<" ", "3", "\n">>],
      [stem |-> Stem(i), has_output |-> TRUE, readable |-> TRUE,
       input |-> <<"2", " ", "2">>, expected_output |-> <<"5">>] }

\* the directories of at most n input files, sorted by stem
RECURSIVE Dirs(_)
Dirs(n) ==
    IF n = 0 THEN { <<>> }
    ELSE Dirs(n - 1) \cup { Append(d, f) : d \in { e \in Dirs(n - 1) : Len(e) = n - 1 }, f \in Files(n) }

RECURSIVE PairFiles(_)
\* the loop over input_files: a file with no output file or an unreadable
\* pair is skipped, the others become test cases named by their stem
PairFiles(d) ==
    IF d = <<>> THEN <<>>
    ELSE LET f == Head(d)
         IN  IF ~f.has_output \/ ~f.readable
             THEN PairFiles(Tail(d))
             ELSE << [name |-> f.stem, input |-> f.input,
                      expected_output |-> f.expected_output] >> \o PairFiles(Tail(d))

LoadTestsFromDirectory(exists, d) ==
    IF ~exists THEN [raised |-> "FileNotFoundError", test_cases |-> <<>>]
    ELSE IF d = <<>> THEN [raised |-> "ValueError", test_cases |-> <<>>]
    ELSE [raised |-> "", test_cases |-> PairFiles(d)]

----------------------------------------------------------------------------
(* The callers: a client program using a grader, and the __main__ script *)

\* the dictionaries of a test_cases list: 'name' is optional, and so are
\* 'input' and 'expected_output'
Cases ==
    { IF a.test_name = None
      THEN [input |-> a.input_data, expected_output |-> a.expected_output]
      ELSE [name |-> a.test_name[1], input |-> a.input_data,
            expected_output |-> a.expected_output] : a \in CallArgs }
    \cup { << >> }

RECURSIVE Lists(_, _)
\* the lists of at most n elements of S
Lists(S, n) ==
    IF n = 0 THEN { <<>> }
    ELSE Lists(S, n - 1) \cup { Append(l, x) : l \in { m \in Lists(S, n - 1) : Len(m) = n - 1 }, x \in S }

\* the lists a caller hands to run_multiple_tests
Batches == Lists(Cases, MaxBatch)

\* test_case.get('name')
CaseName(tc) == IF "name" \in DOMAIN tc THEN Some(tc.name) ELSE None

NoCall == [input_data |-> <<>>, expected_output |-> <<>>, test_name |-> None,
           env |-> MissingRun, before |-> 0]

env_vars == <<code_exists, timeout, caller, dir_exists, dir>>

Init ==
    /\ caller \in {"client", "main"}
    /\ code_exists \in BOOLEAN
    /\ timeout \in (IF caller = "main" THEN {DefaultTimeout} ELSE Timeouts)
    /\ dir_exists \in (IF caller = "main" THEN BOOLEAN ELSE {FALSE})
    /\ dir \in (IF dir_exists THEN Dirs(MaxFiles) ELSE { <<>> })
    /\ results = <<>>
    /\ test_cases = <<>>
    /\ idx = 0
    /\ prior = 0
    /\ pc = (IF caller = "main" THEN "main" ELSE "idle")
    /\ op = "init"
    /\ call = NoCall
    /\ ret = None
    /\ raised = ""
    /\ printed = <<>>
    /\ child = "none"
    /\ spawned = 0
    /\ exit_status = None

\* a client calls run_test_case directly
ClientRunTestCase ==
    /\ pc = "idle"
    /\ Len(results) < MaxResults
    /\ \E a \in CallArgs, env \in Envs(code_exists) :
          RunTestCase(a.input_data, a.expected_output, a.test_name, env)
    /\ prior' = 0
    /\ test_cases' = <<>>
    /\ UNCHANGED <<env_vars, idx, pc, exit_status>>

\* a run_multiple_tests that keeps the earlier results
StartBatch_NoReset(cases, next) ==
    /\ results' = results
    /\ test_cases' = cases
    /\ idx' = 1
    /\ prior' = Len(results)
    /\ pc' = next
    /\ op' = "run_multiple_tests:reset"
    /\ ret' = None
    /\ raised' = ""
    /\ child' = "none"
    /\ spawned' = 0
    /\ call' = NoCall

\* run_multiple_tests: self.results = [] and the loop is entered
StartBatch(cases, next) ==
    /\ results' = <<>>
    /\ test_cases' = cases
    /\ idx' = 1
    /\ prior' = Len(results)
    /\ pc' = next
    /\ op' = "run_multiple_tests:reset"
    /\ ret' = None
    /\ raised' = ""
    /\ child' = "none"
    /\ spawned' = 0
    /\ call' = NoCall

ClientRunMultipleTests ==
    /\ pc = "idle"
    /\ \E cases \in Batches : StartBatch(cases, "batch")
    /\ printed' = <<>>
    /\ UNCHANGED <<env_vars, exit_status>>

\* one iteration of the loop of run_multiple_tests
BatchIteration ==
    /\ pc = "batch"
    /\ idx <= Len(test_cases)
    /\ LET tc == test_cases[idx]
       IN  \E env \in Envs(code_exists) :
              RunTestCase(Get(tc, "input", <<>>), Get(tc, "expected_output", <<>>),
                          CaseName(tc), env)
    /\ idx' = idx + 1
    /\ UNCHANGED <<env_vars, test_cases, pc, prior, exit_status>>

\* the loop is over: return self.results
BatchReturn ==
    /\ pc = "batch"
    /\ idx > Len(test_cases)
    /\ ret' = results
    /\ op' = "run_multiple_tests"
    /\ pc' = (IF caller = "main" THEN "m_check" ELSE "idle")
    /\ raised' = ""
    /\ printed' = <<>>
    /\ UNCHANGED <<env_vars, results, test_cases, idx, prior, call, child, spawned, exit_status>>

ClientGetScore ==
    /\ pc = "idle"
    /\ ret' = GetScore(results)
    /\ op' = "get_score"
    /\ raised' = ""
    /\ printed' = <<>>
    /\ UNCHANGED <<env_vars, results, test_cases, idx, prior, pc, call, child, spawned, exit_status>>

ClientPrintSummary ==
    /\ pc = "idle"
    /\ LET out == PrintSummary(results)
       IN  /\ printed' = out.lines
           /\ raised' = out.raised
    /\ ret' = None
    /\ op' = "print_summary"
    /\ UNCHANGED <<env_vars, results, test_cases, idx, prior, pc, call, child, spawned, exit_status>>

\* the script, lines 264-267: dp.py must exist
MainCheckProgram ==
    /\ pc = "main"
    /\ IF ~code_exists
       THEN /\ printed' = << [line |-> "Error: dp.py not found in the current directory!"] >>
            /\ exit_status' = Some(1)
            /\ pc' = "exit"
       ELSE /\ printed' = <<>>
            /\ exit_status' = exit_status
            /\ pc' = "m_dir"
    /\ op' = "main:check_program"
    /\ UNCHANGED <<env_vars, results, test_cases, idx, prior, call, ret, raised, child, spawned>>

\* the script, lines 270-279: the directory 'tests' must exist
MainCheckDirectory ==
    /\ pc = "m_dir"
    /\ IF ~dir_exists
       THEN /\ printed' = << [line |-> "Error: 'tests' directory not found!"] >>
            /\ exit_status' = Some(1)
            /\ pc' = "exit"
       ELSE /\ printed' = <<>>
            /\ exit_status' = exit_status
            /\ pc' = "m_load"
    /\ op' = "main:check_directory"
    /\ UNCHANGED <<env_vars, results, test_cases, idx, prior, call, ret, raised, child, spawned>>

\* the script, lines 281-290, up to the point where run_tests_from_directory
\* returns [] or calls run_multiple_tests; an exception of
\* load_tests_from_directory is caught nowhere and ends the script with a
\* traceback and exit status 1
MainRunTestsFromDirectory ==
    /\ pc = "m_load"
    /\ LET loaded == LoadTestsFromDirectory(dir_exists, dir)
       IN  IF loaded.raised # ""
           THEN /\ raised' = loaded.raised
                /\ exit_status' = Some(1)
                /\ pc' = "exit"
                /\ printed' = <<>>
                /\ op' = "load_tests_from_directory"
                /\ UNCHANGED <<results, test_cases, idx, prior, call, ret, child, spawned>>
           ELSE IF loaded.test_cases = <<>>
           THEN /\ printed' = << [line |-> "No valid test cases found!"] >>
                /\ ret' = <<>>
                /\ raised' = ""
                /\ pc' = "m_check"
                /\ op' = "run_tests_from_directory"
                /\ UNCHANGED <<results, test_cases, idx, prior, call, child, spawned, exit_status>>
           ELSE /\ StartBatch(loaded.test_cases, "batch")
                /\ printed' = << [line |-> "Found", count |-> Len(loaded.test_cases)] >>
                /\ UNCHANGED exit_status
    /\ UNCHANGED env_vars

\* the script, lines 292-294: nothing was run
MainCheckResults ==
    /\ pc = "m_check"
    /\ IF ret = <<>>
       THEN /\ printed' = << [line |-> "No test cases were run. Please check your test directory."] >>
            /\ exit_status' = Some(1)
            /\ pc' = "exit"
       ELSE /\ printed' = <<>>
            /\ exit_status' = exit_status
            /\ pc' = "m_summary"
    /\ op' = "main:check_results"
    /\ UNCHANGED <<env_vars, results, test_cases, idx, prior, call, ret, raised, child, spawned>>

\* the script, line 297
MainPrintSummary ==
    /\ pc = "m_summary"
    /\ LET out == PrintSummary(results)
       IN  /\ printed' = out.lines
           /\ raised' = out.raised
           /\ exit_status' = (IF out.raised # "" THEN Some(1) ELSE exit_status)
           /\ pc' = (IF out.raised # "" THEN "exit" ELSE "m_score")
    /\ ret' = None
    /\ op' = "print_summary"
    /\ UNCHANGED <<env_vars, results, test_cases, idx, prior, call, child, spawned>>

\* exit status of the script when it runs off its last line
EndOfScript == 0

\* the script, lines 300-301, and its end
MainFinalScore ==
    /\ pc = "m_score"
    /\ LET score == GetScore(results)
           pct == Percent(score[1], score[2])
       IN  /\ ret' = score
           /\ raised' = pct.raised
           /\ printed' = (IF pct.raised # "" THEN <<>>
                          ELSE << [line |-> "Final Score", passed |-> score[1],
                                   total |-> score[2], tenths |-> pct.tenths] >>)
           /\ exit_status' = (IF pct.raised # "" THEN Some(1) ELSE Some(EndOfScript))
    /\ pc' = "exit"
    /\ op' = "main:final_score"
    /\ UNCHANGED <<env_vars, results, test_cases, idx, prior, call, child, spawned>>

Next ==
    \/ ClientRunTestCase
    \/ ClientRunMultipleTests
    \/ BatchIteration
    \/ BatchReturn
    \/ ClientGetScore
    \/ ClientPrintSummary
    \/ MainCheckProgram
    \/ MainCheckDirectory
    \/ MainRunTestsFromDirectory
    \/ MainCheckResults
    \/ MainPrintSummary
    \/ MainFinalScore

Spec == Init /\ [][Next]_vars

----------------------------------------------------------------------------
(* The comparison of run_test_case on its own: one call on a fresh grader,  *)
(* for every expected output and every captured stdout of at most MaxLen    *)
(* characters, and a zero or non-zero exit status.                          *)

Alphabet == {"a", " ", "\n"}
Texts == Lists(Alphabet, MaxLen)
ExitCodes == {0, 1}

InitCompare ==
    /\ caller = "client"
    /\ code_exists = TRUE
    /\ timeout = DefaultTimeout
    /\ dir_exists = FALSE
    /\ dir = <<>>
    /\ results = <<>>
    /\ test_cases = <<>>
    /\ idx = 0
    /\ prior = 0
    /\ pc = "compare"
    /\ op = "init"
    /\ call \in { [input_data |-> <<>>, expected_output |-> e, test_name |-> None,
                   env |-> [error |-> "", stdout |-> o, stderr |-> "", returncode |-> c,
                            seconds |-> 0],
                   before |-> 0] : e \in Texts, o \in Texts, c \in ExitCodes }
    /\ ret = None
    /\ raised = ""
    /\ printed = <<>>
    /\ child = "none"
    /\ spawned = 0
    /\ exit_status = None

Compare ==
    /\ pc = "compare"
    /\ RunTestCase(call.input_data, call.expected_output, call.test_name, call.env)
    /\ pc' = "idle"
    /\ UNCHANGED <<env_vars, test_cases, idx, prior, exit_status>>

NextCompare == Compare

SpecCompare == InitCompare /\ [][NextCompare]_vars

----------------------------------------------------------------------------
(* The properties *)

\* whitespace, as the properties understand trimming
Blank == {" ", "\n", "\t"}

\* t is s without its leading and trailing whitespace
IsTrimOf(t, s) ==
    \E i \in 1..(Len(s) + 1), j \in 0..Len(s) :
        /\ t = SubSeq(s, i, j)
        /\ \A k \in 1..(i - 1) : s[k] \in Blank
        /\ \A k \in (j + 1)..Len(s) : s[k] \in Blank
        /\ t = <<>> \/ (t[1] \notin Blank /\ t[Len(t)] \notin Blank)

Trimmed(s) ==
    CHOOSE t \in { SubSeq(s, i, j) : i \in 1..(Len(s) + 1), j \in 0..Len(s) } : IsTrimOf(t, s)

\* the outcome the latest run_test_case call recorded
Latest == results[Len(results)]

TestLabel == << "Test 1", "Test 2", "Test 3", "Test 4", "Test 5" >>

TimeoutText ==
    IF timeout = 2 THEN "Timeout: Execution exceeded 2 seconds"
    ELSE "Timeout: Execution exceeded 5 seconds"

\* the four statuses of an outcome, read off its fields
IsPassed(r) == r.passed
IsTimedOut(r) == ~r.passed /\ "error" \in DOMAIN r /\ r.error = TimeoutText
IsExecutionError(r) == ~r.passed /\ "error" \in DOMAIN r /\ r.error # TimeoutText
IsFailed(r) == ~r.passed /\ "error" \notin DOMAIN r

\* C1, as claimed: after run_multiple_tests(cases) returns, whatever the
\* results held before, results has exactly Len(cases) outcomes and the i-th
\* has the i-th case's input and, when the case gives a name, that name.
C1_AsClaimed ==
    op = "run_multiple_tests" =>
        /\ Len(results) = Len(test_cases)
        /\ \A i \in 1..Len(test_cases) :
              /\ i <= Len(results)
              /\ results[i].input = Get(test_cases[i], "input", <<>>)
              /\ "name" \in DOMAIN test_cases[i] => results[i].test_name = test_cases[i].name

\* C1, amended: as claimed, except that the i-th outcome has the i-th case's
\* name when that name is given and not empty; a case with no name or with
\* the empty name gets "Test i".
C1_BatchOneToOne ==
    op = "run_multiple_tests" =>
        /\ Len(results) = Len(test_cases)
        /\ ret = results
        /\ \A i \in 1..Len(test_cases) :
              /\ i <= Len(results)
              /\ results[i].input = Get(test_cases[i], "input", <<>>)
              /\ IF "name" \in DOMAIN test_cases[i] /\ test_cases[i].name # ""
                 THEN results[i].test_name = test_cases[i].name
                 ELSE results[i].test_name = TestLabel[i]

\* a batch of two that replaced earlier results: an empty-named case that
\* timed out, then a passing one
C1_Witness ==
    /\ op = "run_multiple_tests"
    /\ prior > 0
    /\ Len(test_cases) = 2
    /\ Len(results) = 2
    /\ "name" \in DOMAIN test_cases[1]
    /\ test_cases[1].name = ""
    /\ IsTimedOut(results[1])
    /\ IsPassed(results[2])

\* C2: on normal termination the outcome is passed iff the trimmed stdout
\* equals the trimmed expected output; the exit code is recorded unchanged
\* and does not matter; an internal whitespace difference fails.
C2_TrimmingLaw ==
    op = "run_test_case" =>
        /\ Latest.passed <=> (Trimmed(call.env.stdout) = Trimmed(call.expected_output))
        /\ Latest.return_code = Some(call.env.returncode)
        /\ Latest.actual_output = Some(Trimmed(call.env.stdout))
        /\ (call.env.stdout = <<"a", " ", " ", "a">> /\ call.expected_output = <<"a", " ", "a">>)
              => ~Latest.passed

\* a non-zero exit, and texts that differ before trimming only at their ends
C2_Witness ==
    /\ op = "run_test_case"
    /\ call.env.returncode = 1
    /\ call.env.stdout = <<"a", " ", "a", "\n">>
    /\ call.expected_output = <<" ", "a", " ", "a">>
    /\ Latest.passed

\* C3: a target that runs longer than the timeout gives a returned (not
\* raised) outcome that is not passed, with no actual output, no exit code
\* and a message naming the timeout; and no subprocess is left running.
C3_Timeout ==
    /\ child # "running"
    /\ (op = "run_test_case" /\ call.env.error = "" /\ call.env.seconds > timeout) =>
          /\ raised = ""
          /\ ret = Latest
          /\ IsTimedOut(Latest)
          /\ Latest.actual_output = None
          /\ Latest.return_code = None
          /\ child = "killed"

\* a three-second target under a two-second timeout
C3_Witness ==
    /\ op = "run_test_case"
    /\ timeout = 2
    /\ call.env.error = ""
    /\ call.env.seconds = 3
    /\ IsTimedOut(Latest)

\* C4, as claimed: a missing or unexecutable target, or any launch failure,
\* gives an ExecutionError outcome with a non-empty diagnostic, no actual
\* output and no exit code.
C4_AsClaimed ==
    (op = "run_test_case" /\ (~code_exists \/ call.env.error # "")) =>
        /\ raised = ""
        /\ IsExecutionError(Latest)
        /\ Latest.error # ""
        /\ Latest.actual_output = None
        /\ Latest.return_code = None

\* what the latest get_score call returned, against the results
C5_ScoreIs ==
    op \in {"get_score", "main:final_score"} =>
        /\ ret[2] = Len(results)
        /\ ret[1] = Cardinality({ i \in 1..Len(results) : results[i].passed })
        /\ 0 <= ret[1] /\ ret[1] <= ret[2]
        /\ results = <<>> => ret = <<0, 0>>
        /\ op = "get_score" => raised = ""

\* C5: get_score returns (passed outcomes, all outcomes), (0, 0) on an
\* empty list, raises nothing and leaves the results alone.
C5_Score ==
    /\ []C5_ScoreIs
    /\ [][op' \in {"get_score", "main:final_score"} => results' = results]_vars

\* a score over a passed and a not passed outcome
C5_Witness ==
    /\ op = "get_score"
    /\ Len(results) = 2
    /\ ret = <<1, 2>>

\* the lines of the last output that show a count of tests
CountLines == { i \in DOMAIN printed : "total" \in DOMAIN printed[i] }

\* C6, as claimed: the percentage is never computed with a total of 0, and
\* a summary of no outcomes reports "0/0".
C6_AsClaimed ==
    /\ raised # "ZeroDivisionError"
    /\ (op = "print_summary" /\ results = <<>>) =>
          \E i \in CountLines : printed[i].passed = 0 /\ printed[i].total = 0

\* C6, amended: the percentage is never computed with a total of 0; a
\* summary of no outcomes prints only "No tests have been run yet.", and no
\* line ever shows a count of 0 tests; the script that ran nothing ends with
\* status 1 before its score line.
C6_NoZeroTotal ==
    /\ raised # "ZeroDivisionError"
    /\ \A i \in CountLines : printed[i].total > 0
    /\ (op = "print_summary" /\ results = <<>>) =>
          printed = << [line |-> "No tests have been run yet."] >>
    /\ (pc = "exit" /\ results = <<>>) => (exit_status = Some(1) /\ CountLines = {})

\* a summary asked for after an empty batch replaced earlier results
C6_Witness ==
    /\ op = "print_summary"
    /\ results = <<>>
    /\ prior > 0
    /\ test_cases = <<>>

\* C7, as claimed: the script ends with a non-zero status when the program
\* or the directory is missing or no valid test case was found; otherwise
\* the status tells a run where some case did not pass from a run where all
\* passed (which ends with status 0).
C7_AsClaimed ==
    pc = "exit" =>
        /\ exit_status # None
        /\ (~code_exists \/ ~dir_exists \/ results = <<>>) => exit_status # Some(0)
        /\ (results # <<>> /\ \E i \in 1..Len(results) : ~results[i].passed)
              => exit_status # Some(0)

\* the steps that are a run_test_case call append one outcome
C8_Step ==
    /\ op' = "run_test_case" =>
          /\ Len(results') = Len(results) + 1
          /\ SubSeq(results', 1, Len(results)) = results
          /\ spawned' <= 1
    /\ op' \in {"get_score", "print_summary", "main:final_score"} => results' = results

\* C8: every run_test_case call launches the target at most once and
\* appends exactly one outcome, leaving the earlier ones as they were;
\* get_score and print_summary never change the results.
C8_AppendOnly == [][C8_Step]_vars

\* a timed-out outcome followed by one of a failed launch
C8_Witness ==
    /\ op = "run_test_case"
    /\ Len(results) = 2
    /\ IsTimedOut(results[1])
    /\ IsExecutionError(results[2])
    /\ spawned = 1

\* C9, as claimed: every outcome carries the case's input unchanged and the
\* case's expected output trimmed.
C9_AsClaimed ==
    op = "run_test_case" =>
        /\ Latest.input = call.input_data
        /\ Latest.expected_output = Trimmed(call.expected_output)

====
